---- MODULE Spec2Model ----
(***************************************************************************)
(* A model of the PDF utilities under AionUi/skills/pdf/scripts:           *)
(*   check_bounding_boxes.py   boxes_intersect, check_bounding_boxes       *)
(*   split_pdf.py              parse_page_range, extract_pages             *)
(*   merge_pdfs.py             merge_pdfs                                  *)
(*   fill_pdf_form_with_annotations.py   fill_form_with_annotations        *)
(*   fill_fillable_fields.py   fill_form_fields                            *)
(* Every utility is one process run; each has its own variables, its own   *)
(* actions and its own specification, in which the other utilities idle.   *)
(***************************************************************************)
EXTENDS Integers, Sequences, FiniteSets, TLC

VARIABLES
    \* boxes_intersect(box1, box2)
    box1, box2, bi_result, bi_pc,
    \* check_bounding_boxes(json_path) and its __main__
    form_fields, cb_i, errors, valid, cb_exit, cb_pc,
    \* split_pdf.py: extract_pages(input_path, output_path, page_range)
    sp_input_ok, total_pages, range_str, sp_tokens, sp_pages, sp_k,
    sp_writer, sp_output, sp_exit, sp_pc,
    \* fill_pdf_form_with_annotations.py: fill_form_with_annotations
    an_json_ok, an_input_ok, an_doc_pages, an_pages, an_fields, an_page, an_scale,
    an_page_fields, an_j, an_canvas, an_writer, an_output, an_exit, an_pc,
    \* fill_fillable_fields.py: fill_form_fields
    ff_values_ok, ff_input_ok, field_values, ff_pages, ff_catalog, values_dict,
    invalid_fields, ff_listed_invalid, ff_listed_valid, ff_message, ff_filled,
    ff_output, ff_exit, ff_pc,
    \* merge_pdfs.py: merge_pdfs
    input_paths, mg_i, mg_writer, mg_total_pages, mg_errors, mg_output, mg_exit, mg_pc

vars_bi == <<box1, box2, bi_result, bi_pc>>
vars_cb == <<form_fields, cb_i, errors, valid, cb_exit, cb_pc>>
vars_sp == <<sp_input_ok, total_pages, range_str, sp_tokens, sp_pages, sp_k,
            sp_writer, sp_output, sp_exit, sp_pc>>
vars_an == <<an_json_ok, an_input_ok, an_doc_pages, an_pages, an_fields, an_page,
            an_scale, an_page_fields, an_j, an_canvas, an_writer, an_output, an_exit,
            an_pc>>
vars_ff == <<ff_values_ok, ff_input_ok, field_values, ff_pages, ff_catalog,
            values_dict, invalid_fields, ff_listed_invalid, ff_listed_valid,
            ff_message, ff_filled, ff_output, ff_exit, ff_pc>>
vars_mg == <<input_paths, mg_i, mg_writer, mg_total_pages, mg_errors, mg_output,
            mg_exit, mg_pc>>
vars == <<vars_bi, vars_cb, vars_sp, vars_an, vars_ff, vars_mg>>
\* what a step of one utility leaves alone: the other utilities
rest_bi == <<vars_cb, vars_sp, vars_an, vars_ff, vars_mg>>
rest_cb == <<vars_bi, vars_sp, vars_an, vars_ff, vars_mg>>
rest_sp == <<vars_bi, vars_cb, vars_an, vars_ff, vars_mg>>
rest_an == <<vars_bi, vars_cb, vars_sp, vars_ff, vars_mg>>
rest_ff == <<vars_bi, vars_cb, vars_sp, vars_an, vars_mg>>
rest_mg == <<vars_bi, vars_cb, vars_sp, vars_an, vars_ff>>

(***************************************************************************)
(* Python values.  A JSON value that may be null or a list is a record     *)
(* [isNone, items]; None is the record with isNone set.                    *)
(***************************************************************************)
None == [isNone |-> TRUE, items |-> <<>>]
List(s) == [isNone |-> FALSE, items |-> s]
\* Python truthiness of None / a list: `not box` is true of None and of [].
Truthy(v) == ~v.isNone /\ Len(v.items) > 0

Min(a, b) == IF a < b THEN a ELSE b

RECURSIVE Concat(_)
\* the concatenation of a sequence of sequences
Concat(ss) == IF ss = <<>> THEN <<>> ELSE Head(ss) \o Concat(Tail(ss))

(***************************************************************************)
(* check_bounding_boxes.py : boxes_intersect                               *)
(***************************************************************************)
\* Largest coordinate of the rectangles boxes_intersect is called with.
MaxCoord == 2
Coord == 0..MaxCoord

\* [left, top, right, bottom], well-formed or not
Rects == {<<l, t, r, b>> : l \in Coord, t \in Coord, r \in Coord, b \in Coord}
BoxArgs == {None, List(<<>>)} \cup {List(q) : q \in Rects}

WellFormed(q) == q[1] <= q[3] /\ q[2] <= q[4]

\* a plausible slip: strict boundaries (touching rectangles do not intersect)
boxes_intersect_strict(b1, b2) ==
    IF ~Truthy(b1) \/ ~Truthy(b2) THEN FALSE
    ELSE LET left1 == b1.items[1]  top1 == b1.items[2]
             right1 == b1.items[3] bottom1 == b1.items[4]
             left2 == b2.items[1]  top2 == b2.items[2]
             right2 == b2.items[3] bottom2 == b2.items[4]
         IN IF right1 <= left2 \/ right2 <= left1 THEN FALSE
            ELSE IF bottom1 <= top2 \/ bottom2 <= top1 THEN FALSE
            ELSE TRUE

\* a plausible slip: only one of the two horizontal separations is tested
boxes_intersect_onesided(b1, b2) ==
    IF ~Truthy(b1) \/ ~Truthy(b2) THEN FALSE
    ELSE LET left1 == b1.items[1]  top1 == b1.items[2]
             right1 == b1.items[3] bottom1 == b1.items[4]
             left2 == b2.items[1]  top2 == b2.items[2]
             right2 == b2.items[3] bottom2 == b2.items[4]
         IN IF right1 < left2 THEN FALSE
            ELSE IF bottom1 < top2 \/ bottom2 < top1 THEN FALSE
            ELSE TRUE

boxes_intersect(b1, b2) ==
    IF ~Truthy(b1) \/ ~Truthy(b2) THEN FALSE
    ELSE LET left1 == b1.items[1]  top1 == b1.items[2]
             right1 == b1.items[3] bottom1 == b1.items[4]
             left2 == b2.items[1]  top2 == b2.items[2]
             right2 == b2.items[3] bottom2 == b2.items[4]
         IN IF right1 < left2 \/ right2 < left1 THEN FALSE
            ELSE IF bottom1 < top2 \/ bottom2 < top1 THEN FALSE
            ELSE TRUE

InitBoxes ==
    /\ box1 \in BoxArgs
    /\ box2 \in BoxArgs
    /\ bi_result = FALSE
    /\ bi_pc = "call"

IdleBoxes ==
    /\ box1 = None
    /\ box2 = None
    /\ bi_result = FALSE
    /\ bi_pc = "idle"

\* the call boxes_intersect(box1, box2)
BoxesIntersectCall ==
    /\ bi_pc = "call"
    /\ bi_result' = boxes_intersect(box1, box2)
    /\ bi_pc' = "returned"
    /\ UNCHANGED <<box1, box2>>
    /\ UNCHANGED rest_bi

(***************************************************************************)
(* check_bounding_boxes.py : check_bounding_boxes and __main__             *)
(***************************************************************************)
MIN_HEIGHT == 15

\* Longest form_fields list.
MaxFields == 2

\* label boxes: absent, or a strip ending at y = 0
LabelBoxes == {None, List(<<0, 0, 1, 0>>)}
\* entry boxes: absent, empty, heights around MIN_HEIGHT starting at y = 0
\* (touching the label strip) or y = 1 (clear of it), and an inverted one
EntryBoxes ==
    {None, List(<<>>), List(<<0, 1, 1, 0>>)}
        \cup {List(<<0, t, 1, b>>) : t \in {0, 1}, b \in {MIN_HEIGHT, MIN_HEIGHT + 1}}
\* a key that may be missing from the JSON object
Absent == "<absent>"
Descriptions == {Absent, "d"}
PageNumbers == {0, 2}   \* 0: the key page_number is missing

Fields ==
    [label_bounding_box : LabelBoxes, entry_bounding_box : EntryBoxes,
     description : Descriptions, page_number : PageNumbers]

RECURSIVE SeqsUpTo(_, _)
\* the sequences over S of length at most n
SeqsUpTo(S, n) ==
    IF n = 0 THEN {<<>>}
    ELSE LET shorter == SeqsUpTo(S, n - 1)
         IN shorter \cup {Append(s, x) : s \in {t \in shorter : Len(t) = n - 1}, x \in S}

\* field.get('description', f'Field {i}'), i the 0-based index
DescriptionOf(field, i) ==
    IF field.description = Absent THEN <<"Field", i>> ELSE <<field.description>>
\* field.get('page_number', 1)
PageOf(field) == IF field.page_number = 0 THEN 1 ELSE field.page_number

IntersectMsg(field, i) ==
    [kind |-> "intersect", page |-> PageOf(field),
     description |-> DescriptionOf(field, i), height |-> 0]
ShortMsg(field, i, height) ==
    [kind |-> "short", page |-> PageOf(field),
     description |-> DescriptionOf(field, i), height |-> height]

\* bottom - top of a present entry box
HeightOf(entry_box) == entry_box.items[4] - entry_box.items[2]

\* a plausible slip: the threshold itself is rejected
TooShort_inclusive(height) == height <= MIN_HEIGHT
TooShort(height) == height < MIN_HEIGHT

\* a plausible slip: a message already reported is not reported again
AppendError_dedup(errs, msg) ==
    IF \E k \in 1..Len(errs) : errs[k] = msg THEN errs ELSE Append(errs, msg)
AppendError(errs, msg) == Append(errs, msg)

\* the body of `for i, field in enumerate(form_fields)`: what errors becomes
FieldChecked(errs, field, i) ==
    LET label_box == field.label_bounding_box
        entry_box == field.entry_bounding_box
        e1 == IF Truthy(label_box) /\ Truthy(entry_box)
                 /\ boxes_intersect(label_box, entry_box)
              THEN AppendError(errs, IntersectMsg(field, i))
              ELSE errs
    IN IF Truthy(entry_box) /\ TooShort(HeightOf(entry_box))
       THEN AppendError(e1, ShortMsg(field, i, HeightOf(entry_box)))
       ELSE e1

InitCheck ==
    /\ form_fields \in SeqsUpTo(Fields, MaxFields)
    /\ cb_i = 0
    /\ errors = <<>>
    /\ valid = FALSE
    /\ cb_exit = -1
    /\ cb_pc = "loop"

IdleCheck ==
    /\ form_fields = <<>>
    /\ cb_i = 0
    /\ errors = <<>>
    /\ valid = FALSE
    /\ cb_exit = -1
    /\ cb_pc = "idle"

\* one iteration of the loop over form_fields
CheckField ==
    /\ cb_pc = "loop"
    /\ cb_i < Len(form_fields)
    /\ errors' = FieldChecked(errors, form_fields[cb_i + 1], cb_i)
    /\ cb_i' = cb_i + 1
    /\ UNCHANGED <<form_fields, valid, cb_exit, cb_pc>>
    /\ UNCHANGED rest_cb

\* `if errors: ... return False else: ... return True`
ResultOf(errs) == errs = <<>>

\* the loop is over: print the report and return
CheckReturn ==
    /\ cb_pc = "loop"
    /\ cb_i = Len(form_fields)
    /\ valid' = ResultOf(errors)
    /\ cb_pc' = "returned"
    /\ UNCHANGED <<form_fields, cb_i, errors, cb_exit>>
    /\ UNCHANGED rest_cb

\* sys.exit(0 if valid else 1)
CheckExit ==
    /\ cb_pc = "returned"
    /\ cb_exit' = IF valid THEN 0 ELSE 1
    /\ cb_pc' = "exited"
    /\ UNCHANGED <<form_fields, cb_i, errors, valid>>
    /\ UNCHANGED rest_cb

(***************************************************************************)
(* split_pdf.py : parse_page_range                                         *)
(* A str is a sequence of one-character strings.                           *)
(***************************************************************************)
Digits == <<"0", "1", "2", "3", "4", "5", "6", "7", "8", "9">>
DigitChars == {Digits[k] : k \in 1..10}
DigitVal(c) == (CHOOSE k \in 1..10 : Digits[k] = c) - 1

\* the value a raised exception leaves in place of a result
Raised == [ok |-> FALSE, val |-> 0, pages |-> <<>>]
IntOk(n) == [ok |-> TRUE, val |-> n, pages |-> <<>>]
PagesOk(ps) == [ok |-> TRUE, val |-> 0, pages |-> ps]

\* 0 when c does not occur in s, else the index of its first occurrence
IndexOf(s, c) ==
    IF \E k \in 1..Len(s) : s[k] = c
    THEN CHOOSE k \in 1..Len(s) : s[k] = c /\ \A j \in 1..(k - 1) : s[j] # c
    ELSE 0

RECURSIVE Split(_, _)
\* str.split(sep) for a one-character sep: empty pieces are kept
Split(s, sep) ==
    LET k == IndexOf(s, sep)
    IN IF k = 0 THEN <<s>>
       ELSE <<SubSeq(s, 1, k - 1)>> \o Split(SubSeq(s, k + 1, Len(s)), sep)

RECURSIVE LStrip(_)
LStrip(s) == IF s # <<>> /\ Head(s) = " " THEN LStrip(Tail(s)) ELSE s
RECURSIVE RStrip(_)
RStrip(s) ==
    IF s # <<>> /\ s[Len(s)] = " " THEN RStrip(SubSeq(s, 1, Len(s) - 1)) ELSE s
\* str.strip()
Strip(s) == LStrip(RStrip(s))

RECURSIVE DecimalValue(_)
\* the number a non-empty string of digits denotes
DecimalValue(ds) ==
    IF Len(ds) = 1 THEN DigitVal(ds[1])
    ELSE 10 * DecimalValue(SubSeq(ds, 1, Len(ds) - 1)) + DigitVal(ds[Len(ds)])

\* int(s): surrounding blanks and one sign are accepted, anything else that
\* is not a digit, or no digit at all, raises ValueError
PyInt(s) ==
    LET t == Strip(s)
        signed == t # <<>> /\ t[1] \in {"+", "-"}
        ds == IF signed THEN Tail(t) ELSE t
    IN IF ds = <<>> \/ \E k \in 1..Len(ds) : ds[k] \notin DigitChars
       THEN Raised
       ELSE IntOk(IF signed /\ t[1] = "-" THEN 0 - DecimalValue(ds)
                  ELSE DecimalValue(ds))

\* list(range(start, stop))
PyRange(start, stop) ==
    IF stop <= start THEN <<>> ELSE [k \in 1..(stop - start) |-> start + k - 1]

\* a plausible slip: the span is not clamped to the document
SpanPages_unclamped(start, end, total) == PyRange(start, end)
\* range(start, min(end, total_pages)), start already 0-indexed
SpanPages(start, end, total) == PyRange(start, Min(end, total))

\* `if 0 <= page < total_pages: pages.append(page)`, page already 0-indexed
SinglePage(page, total) ==
    IF 0 <= page /\ page < total THEN <<page>> ELSE <<>>

\* one turn of `for part in range_str.split(',')`: the pages the part adds
ParsePart(part0, total) ==
    LET part == Strip(part0)
    IN IF IndexOf(part, "-") # 0
       THEN LET pieces == Split(part, "-")
            IN IF Len(pieces) # 2 THEN Raised   \* too many values to unpack
               ELSE LET start == PyInt(pieces[1])
                        end == PyInt(pieces[2])
                    IN IF ~start.ok \/ ~end.ok THEN Raised
                       ELSE PagesOk(SpanPages(start.val - 1, end.val, total))
       ELSE LET page == PyInt(part)
            IN IF ~page.ok THEN Raised
               ELSE PagesOk(SinglePage(page.val - 1, total))

RECURSIVE ParseParts(_, _)
ParseParts(parts, total) ==
    IF parts = <<>> THEN PagesOk(<<>>)
    ELSE LET first == ParsePart(Head(parts), total)
         IN IF ~first.ok THEN Raised
            ELSE LET rest == ParseParts(Tail(parts), total)
                 IN IF ~rest.ok THEN Raised
                    ELSE PagesOk(first.pages \o rest.pages)

parse_page_range(str, total) == ParseParts(Split(str, ","), total)

(***************************************************************************)
(* The page ranges extract_pages is run with: written from page tokens,    *)
(* the documented examples, and arbitrary short text.                      *)
(***************************************************************************)
\* Largest page number written in a token.
MaxNum == 2
\* Most tokens in a range expression.
MaxTokens == 2
\* Most pages of the input document.
MaxPages == 2
\* Longest arbitrary range text.
MaxLen == 3

Single(p) == [span |-> FALSE, a |-> p, b |-> p]
Span(s, e) == [span |-> TRUE, a |-> s, b |-> e]
Tokens ==
    {Single(p) : p \in 0..MaxNum} \cup {Span(s, e) : s \in 0..MaxNum, e \in 0..MaxNum}
TokenLists == SeqsUpTo(Tokens, MaxTokens) \ {<<>>}

RECURSIVE RenderNum(_)
\* str(n), n >= 0
RenderNum(n) ==
    IF n < 10 THEN <<Digits[n + 1]>>
    ELSE RenderNum(n \div 10) \o <<Digits[(n % 10) + 1]>>

RenderToken(t) ==
    IF t.span THEN RenderNum(t.a) \o <<"-">> \o RenderNum(t.b) ELSE RenderNum(t.a)

RECURSIVE RenderTokens(_)
\* the tokens joined by commas
RenderTokens(ts) ==
    IF Len(ts) = 1 THEN RenderToken(ts[1])
    ELSE RenderToken(Head(ts)) \o <<",">> \o RenderTokens(Tail(ts))

NoTokens == <<>>
RawAlphabet == {"0", "1", "2", ",", "-", " "}

WrittenInputs ==
    {[str |-> RenderTokens(ts), tokens |-> ts, total |-> n] :
        ts \in TokenLists, n \in 0..MaxPages}
RawInputs ==
    {[str |-> s, tokens |-> NoTokens, total |-> n] :
        s \in SeqsUpTo(RawAlphabet, MaxLen), n \in 0..MaxPages}
\* the examples of the usage text and the specification
ExampleInputs ==
    { [str |-> <<"1", "-", "3", ",", "5">>,
       tokens |-> <<Span(1, 3), Single(5)>>, total |-> 10],
      [str |-> <<"1", ",", "3", ",", "5">>,
       tokens |-> <<Single(1), Single(3), Single(5)>>, total |-> 4],
      [str |-> <<"8", "-", "1", "2">>,
       tokens |-> <<Span(8, 12)>>, total |-> 10],
      [str |-> <<" ", "1", " ", "-", " ", "3", " ", ",", " ", "5", " ">>,
       tokens |-> NoTokens, total |-> 10],
      [str |-> <<"+", "1", "-", "+", "2">>, tokens |-> NoTokens, total |-> 3] }
SplitInputs == WrittenInputs \cup RawInputs \cup ExampleInputs

(***************************************************************************)
(* split_pdf.py : extract_pages and __main__                               *)
(***************************************************************************)
NotWritten == [written |-> FALSE, pages |-> <<>>]
Written(ps) == [written |-> TRUE, pages |-> ps]

InitSplit ==
    /\ sp_input_ok \in BOOLEAN
    /\ \E inp \in SplitInputs :
        /\ range_str = inp.str
        /\ sp_tokens = inp.tokens
        /\ total_pages = IF sp_input_ok THEN inp.total ELSE 0
    /\ sp_pages = Raised
    /\ sp_k = 0
    /\ sp_writer = <<>>
    /\ sp_output = NotWritten
    /\ sp_exit = -1
    /\ sp_pc = "open"

IdleSplit ==
    /\ sp_input_ok = FALSE
    /\ range_str = <<>>
    /\ sp_tokens = NoTokens
    /\ total_pages = 0
    /\ sp_pages = Raised
    /\ sp_k = 0
    /\ sp_writer = <<>>
    /\ sp_output = NotWritten
    /\ sp_exit = -1
    /\ sp_pc = "idle"

\* reader = PdfReader(input_path): raises when the input cannot be read
ExtractOpen ==
    /\ sp_pc = "open"
    /\ sp_pc' = IF sp_input_ok THEN "parse" ELSE "raised"
    /\ UNCHANGED <<sp_input_ok, total_pages, range_str, sp_tokens, sp_pages, sp_k,
                   sp_writer, sp_output, sp_exit>>
    /\ UNCHANGED rest_sp

\* pages = parse_page_range(page_range, len(reader.pages)); writer = PdfWriter()
ExtractParse ==
    /\ sp_pc = "parse"
    /\ sp_pages' = parse_page_range(range_str, total_pages)
    /\ sp_pc' = IF sp_pages'.ok THEN "add" ELSE "raised"
    /\ UNCHANGED <<sp_input_ok, total_pages, range_str, sp_tokens, sp_k,
                   sp_writer, sp_output, sp_exit>>
    /\ UNCHANGED rest_sp

\* reader.pages[n]: a negative n counts from the end; -1 when out of range
PageAt(n, total) ==
    IF 0 <= n /\ n < total THEN n
    ELSE IF n < 0 /\ total + n >= 0 THEN total + n
    ELSE -1

\* one turn of `for page_num in pages: writer.add_page(reader.pages[page_num])`
ExtractAddPage ==
    /\ sp_pc = "add"
    /\ sp_k < Len(sp_pages.pages)
    /\ LET page == PageAt(sp_pages.pages[sp_k + 1], total_pages)
       IN IF page = -1
          THEN sp_pc' = "raised" /\ UNCHANGED <<sp_writer, sp_k>>   \* IndexError
          ELSE /\ sp_writer' = Append(sp_writer, page)
               /\ sp_k' = sp_k + 1
               /\ UNCHANGED sp_pc
    /\ UNCHANGED <<sp_input_ok, total_pages, range_str, sp_tokens, sp_pages,
                   sp_output, sp_exit>>
    /\ UNCHANGED rest_sp

\* with open(output_path, 'wb') as f: writer.write(f); the script ends
ExtractWrite ==
    /\ sp_pc = "add"
    /\ sp_k = Len(sp_pages.pages)
    /\ sp_output' = Written(sp_writer)
    /\ sp_exit' = 0
    /\ sp_pc' = "done"
    /\ UNCHANGED <<sp_input_ok, total_pages, range_str, sp_tokens, sp_pages, sp_k,
                   sp_writer>>
    /\ UNCHANGED rest_sp

\* an uncaught exception: traceback, exit status 1
ExtractRaised ==
    /\ sp_pc = "raised"
    /\ sp_exit' = 1
    /\ sp_pc' = "failed"
    /\ UNCHANGED <<sp_input_ok, total_pages, range_str, sp_tokens, sp_pages, sp_k,
                   sp_writer, sp_output>>
    /\ UNCHANGED rest_sp

(***************************************************************************)
(* fill_pdf_form_with_annotations.py : fill_form_with_annotations          *)
(* Python floats are modelled as exact rationals <<numerator, denominator>> *)
(* in lowest terms; rounding is not modelled.  The pypdf and reportlab     *)
(* calls (page.mediabox, Canvas, merge_page, add_page) are taken to        *)
(* succeed; HexColor is modelled by what it does to the string it is given.*)
(***************************************************************************)
Abs(n) == IF n < 0 THEN 0 - n ELSE n

RECURSIVE Gcd(_, _)
Gcd(a, b) == IF b = 0 THEN a ELSE Gcd(b, a % b)

\* n / d in lowest terms with a positive denominator, d # 0
Frac(n, d) ==
    LET g == Gcd(Abs(n), Abs(d))
        s == IF d < 0 THEN -1 ELSE 1
    IN <<(s * n) \div g, (s * d) \div g>>
RatInt(n) == <<n, 1>>
RatMul(p, q) == Frac(p[1] * q[1], p[2] * q[2])
RatSub(p, q) == Frac(p[1] * q[2] - q[1] * p[2], p[2] * q[2])

\* the size in points of page k (1-based) of the input document
PageSize(k) == IF k = 1 THEN <<612, 792>> ELSE <<306, 396>>

\* Most pages of the input document.
MaxDocPages == 2
\* Longest form_fields list of the fields document.
MaxAnFields == 2

\* a Page Descriptor; Absent marks a missing image_width / image_height key
NoDim == -1
Descriptor(p, w, h) == [page_number |-> p, image_width |-> w, image_height |-> h]
\* the "pages" lists of the fields document
PagesLists ==
    { <<>>,
      <<Descriptor(1, 1224, 1584)>>,
      <<Descriptor(1, 0, 1584)>>,
      <<Descriptor(1, 1224, 0)>>,
      <<Descriptor(1, NoDim, 1584)>>,
      <<Descriptor(2, 1224, 1584)>>,
      <<Descriptor(2, 0, 0)>>,
      <<Descriptor(1, 1224, 1584), Descriptor(2, 612, 792)>>,
      <<Descriptor(1, 1, 1), Descriptor(1, 1224, 1584)>> }

\* entry_text: missing or {} (falsy), or a text with a font_color
NoText == [present |-> FALSE, text |-> "", font_size |-> 12, font_color |-> <<>>,
           has_color |-> FALSE]
Text(color) == [present |-> TRUE, text |-> "Johnson", font_size |-> 14,
                font_color |-> color, has_color |-> TRUE]
TextNoColor == [present |-> TRUE, text |-> "Johnson", font_size |-> 14,
                font_color |-> <<>>, has_color |-> FALSE]

Red == <<"F", "F", "0", "0", "0", "0">>
NotHex == <<"G", "G", "0", "0", "0", "0">>
Box1 == List(<<100, 125, 280, 142>>)
Box2 == List(<<0, 0, 50, 20>>)

AnField(p, box, text) ==
    [page_number |-> p, entry_bounding_box |-> box, entry_text |-> text]
\* the fields of the fields document; page_number 0: the key is missing
AnFields ==
    {AnField(0, b, TextNoColor) : b \in {None, Box1, Box2}}
        \cup {AnField(2, Box2, TextNoColor)}
        \cup {AnField(0, Box1, t) : t \in {NoText, Text(Red), Text(NotHex), Text(<<>>)}}
        \cup {AnField(2, Box1, t) : t \in {Text(Red), Text(NotHex)}}

HexDigits ==
    <<"0", "1", "2", "3", "4", "5", "6", "7", "8", "9", "A", "B", "C", "D", "E", "F">>
HexLower == <<"0", "1", "2", "3", "4", "5", "6", "7", "8", "9", "a", "b", "c", "d", "e", "f">>
HexChars == {HexDigits[k] : k \in 1..16} \cup {HexLower[k] : k \in 1..16}
HexVal(c) == (CHOOSE k \in 1..16 : HexDigits[k] = c \/ HexLower[k] = c) - 1

RECURSIVE HexValue(_)
HexValue(ds) ==
    IF Len(ds) = 1 THEN HexVal(ds[1])
    ELSE 16 * HexValue(SubSeq(ds, 1, Len(ds) - 1)) + HexVal(ds[Len(ds)])

Black == <<0, 0, 0>>
\* HexColor('#' + s): int(s, 16) split into red, green, blue; a string that
\* is no hexadecimal number raises ValueError
HexColor(s) ==
    IF s = <<>> \/ \E k \in 1..Len(s) : s[k] \notin HexChars
    THEN [ok |-> FALSE, rgb |-> Black]
    ELSE LET val == HexValue(s)
         IN [ok |-> TRUE,
             rgb |-> <<(val \div 65536) % 256, (val \div 256) % 256, val % 256>>]

\* a plausible slip: the ValueError is not caught
FillColor_uncaught(font_color) == HexColor(font_color)
\* try: setFillColor(HexColor(f'#{font_color}'))
\* except ValueError: setFillColor(HexColor('#000000'))
FillColor(font_color) ==
    LET parsed == HexColor(font_color)
    IN IF parsed.ok THEN parsed ELSE HexColor(<<"0", "0", "0", "0", "0", "0">>)

\* pages_info = {p['page_number']: p for p in data.get('pages', [])}:
\* the last descriptor of a page number wins; <<>> when there is none
PageInfo(pages, page_num) ==
    LET ks == {k \in 1..Len(pages) : pages[k].page_number = page_num}
    IN IF ks = {} THEN <<>>
       ELSE <<pages[CHOOSE k \in ks : \A j \in ks : j <= k]>>

\* page_info.get('image_width', page_width)
ImgWidth(info, page_width) ==
    IF info = <<>> \/ info[1].image_width = NoDim THEN page_width
    ELSE info[1].image_width
\* page_info.get('image_height', page_height)
ImgHeight(info, page_height) ==
    IF info = <<>> \/ info[1].image_height = NoDim THEN page_height
    ELSE info[1].image_height

\* [f for f in form_fields if f.get('page_number', 1) == page_num]
RECURSIVE PageFields(_, _)
PageFields(fs, page_num) ==
    IF fs = <<>> THEN <<>>
    ELSE LET f == Head(fs)
             p == IF f.page_number = 0 THEN 1 ELSE f.page_number
         IN (IF p = page_num THEN <<f>> ELSE <<>>) \o PageFields(Tail(fs), page_num)

\* a plausible slip: the text is anchored at the box's top edge
AnchorY_top(entry_box, scale_y, page_height) ==
    RatSub(RatInt(page_height), RatMul(RatInt(entry_box.items[2]), scale_y))
\* bottom = entry_box[3] * scale_y; pdf_y = page_height - bottom
AnchorY(entry_box, scale_y, page_height) ==
    RatSub(RatInt(page_height), RatMul(RatInt(entry_box.items[4]), scale_y))
\* left = entry_box[0] * scale_x
AnchorX(entry_box, scale_x) == RatMul(RatInt(entry_box.items[1]), scale_x)

\* what c.drawString(left, pdf_y, text) puts on the canvas, with the font
\* size and fill colour in force
Drawn(field, scale, page_height, color) ==
    [x |-> AnchorX(field.entry_bounding_box, scale[1]),
     y |-> AnchorY(field.entry_bounding_box, scale[2], page_height),
     text |-> field.entry_text.text,
     font_size |-> field.entry_text.font_size,
     rgb |-> color.rgb]

One == <<1, 1>>

\* `if entry_box and entry_text`
IsDrawable(field) == Truthy(field.entry_bounding_box) /\ field.entry_text.present

InitAnnot ==
    /\ an_json_ok \in BOOLEAN
    /\ an_input_ok \in BOOLEAN
    /\ an_doc_pages \in (IF an_input_ok THEN 0..MaxDocPages ELSE {0})
    /\ an_pages \in (IF an_json_ok THEN PagesLists ELSE {<<>>})
    /\ an_fields \in (IF an_json_ok THEN SeqsUpTo(AnFields, MaxAnFields) ELSE {<<>>})
    /\ an_page = 0
    /\ an_scale = <<One, One>>
    /\ an_page_fields = <<>>
    /\ an_j = 0
    /\ an_canvas = <<>>
    /\ an_writer = <<>>
    /\ an_output = NotWritten
    /\ an_exit = -1
    /\ an_pc = "load"

IdleAnnot ==
    /\ an_json_ok = FALSE
    /\ an_input_ok = FALSE
    /\ an_doc_pages = 0
    /\ an_pages = <<>>
    /\ an_fields = <<>>
    /\ an_page = 0
    /\ an_scale = <<One, One>>
    /\ an_page_fields = <<>>
    /\ an_j = 0
    /\ an_canvas = <<>>
    /\ an_writer = <<>>
    /\ an_output = NotWritten
    /\ an_exit = -1
    /\ an_pc = "idle"

\* with open(json_path) as f: data = json.load(f)
AnLoad ==
    /\ an_pc = "load"
    /\ an_pc' = IF an_json_ok THEN "open" ELSE "raised"
    /\ UNCHANGED <<an_json_ok, an_input_ok, an_doc_pages, an_pages, an_fields, an_page,
                   an_scale, an_page_fields, an_j, an_canvas, an_writer, an_output,
                   an_exit>>
    /\ UNCHANGED rest_an

\* reader = PdfReader(input_path); writer = PdfWriter(); pages_info = {...}
AnOpen ==
    /\ an_pc = "open"
    /\ IF an_input_ok
       THEN an_pc' = "page" /\ an_page' = 1
       ELSE an_pc' = "raised" /\ UNCHANGED an_page
    /\ UNCHANGED <<an_json_ok, an_input_ok, an_doc_pages, an_pages, an_fields,
                   an_scale, an_page_fields, an_j, an_canvas, an_writer, an_output,
                   an_exit>>
    /\ UNCHANGED rest_an

\* the head of the loop over reader.pages: the page and image dimensions,
\* the scale factors (ZeroDivisionError on a zero image dimension), the
\* page's fields and, when there are any, a fresh canvas
AnPageStart ==
    /\ an_pc = "page"
    /\ an_page <= an_doc_pages
    /\ LET page_width == PageSize(an_page)[1]
           page_height == PageSize(an_page)[2]
           page_info == PageInfo(an_pages, an_page)
           img_width == ImgWidth(page_info, page_width)
           img_height == ImgHeight(page_info, page_height)
       IN IF img_width = 0 \/ img_height = 0
          THEN /\ an_pc' = "raised"
               /\ UNCHANGED <<an_scale, an_page_fields, an_j, an_canvas>>
          ELSE /\ an_scale' = <<Frac(page_width, img_width), Frac(page_height, img_height)>>
               /\ an_page_fields' = PageFields(an_fields, an_page)
               /\ an_j' = 0
               /\ an_canvas' = <<>>
               /\ an_pc' = "field"
    /\ UNCHANGED <<an_json_ok, an_input_ok, an_doc_pages, an_pages, an_fields, an_page,
                   an_writer, an_output, an_exit>>
    /\ UNCHANGED rest_an

\* one turn of `for field in page_fields`
AnDrawField ==
    /\ an_pc = "field"
    /\ an_j < Len(an_page_fields)
    /\ LET field == an_page_fields[an_j + 1]
           entry_text == field.entry_text
           font_color == IF entry_text.has_color THEN entry_text.font_color
                         ELSE <<"0", "0", "0", "0", "0", "0">>
           color == FillColor(font_color)
       IN IF ~IsDrawable(field)
          THEN an_j' = an_j + 1 /\ UNCHANGED <<an_canvas, an_pc>>
          ELSE IF ~color.ok
          THEN an_pc' = "raised" /\ UNCHANGED <<an_canvas, an_j>>
          ELSE /\ an_canvas' =
                    Append(an_canvas, Drawn(field, an_scale, PageSize(an_page)[2], color))
               /\ an_j' = an_j + 1
               /\ UNCHANGED an_pc
    /\ UNCHANGED <<an_json_ok, an_input_ok, an_doc_pages, an_pages, an_fields, an_page,
                   an_scale, an_page_fields, an_writer, an_output, an_exit>>
    /\ UNCHANGED rest_an

\* the fields of the page are done: c.save(), page.merge_page(overlay_page)
\* when the page has fields, then writer.add_page(page)
AnAddPage ==
    /\ an_pc = "field"
    /\ an_j = Len(an_page_fields)
    /\ an_writer' = Append(an_writer, [page |-> an_page, overlay |-> an_canvas])
    /\ an_page' = an_page + 1
    /\ an_pc' = "page"
    /\ UNCHANGED <<an_json_ok, an_input_ok, an_doc_pages, an_pages, an_fields,
                   an_scale, an_page_fields, an_j, an_canvas, an_output, an_exit>>
    /\ UNCHANGED rest_an

\* with open(output_path, 'wb') as f: writer.write(f); the script ends
AnWrite ==
    /\ an_pc = "page"
    /\ an_page > an_doc_pages
    /\ an_output' = Written(an_writer)
    /\ an_exit' = 0
    /\ an_pc' = "done"
    /\ UNCHANGED <<an_json_ok, an_input_ok, an_doc_pages, an_pages, an_fields, an_page,
                   an_scale, an_page_fields, an_j, an_canvas, an_writer>>
    /\ UNCHANGED rest_an

\* an uncaught exception: traceback, exit status 1
AnRaised ==
    /\ an_pc = "raised"
    /\ an_exit' = 1
    /\ an_pc' = "failed"
    /\ UNCHANGED <<an_json_ok, an_input_ok, an_doc_pages, an_pages, an_fields, an_page,
                   an_scale, an_page_fields, an_j, an_canvas, an_writer, an_output>>
    /\ UNCHANGED rest_an

(***************************************************************************)
(* fill_fillable_fields.py : fill_form_fields                              *)
(* Field ids are names; they are modelled by numbers, ordered as sorted()  *)
(* orders the names.                                                       *)
(***************************************************************************)
FieldIds == {1, 2, 3}
FieldValues == {"x", "y"}
\* Longest field-value document.
MaxValues == 2
\* Most pages of the form.
MaxFormPages == 2

Item(id, v) == [field_id |-> id, value |-> v]
Items == {Item(id, v) : id \in FieldIds, v \in FieldValues}

\* the catalog of a form of n pages: the page each field lies on, 0 for an
\* id the form does not have
Catalogs(n) == [FieldIds -> 0..n]
CatalogIds(cat) == {id \in FieldIds : cat[id] # 0}

\* the keys of an insertion-ordered dict built from the items, in order
RECURSIVE DictKeys(_)
DictKeys(items) ==
    IF items = <<>> THEN <<>>
    ELSE LET before == DictKeys(SubSeq(items, 1, Len(items) - 1))
             id == items[Len(items)].field_id
         IN IF \E k \in 1..Len(before) : before[k] = id THEN before
            ELSE Append(before, id)

\* values_dict[id]: the value of the last item with that id
DictValue(items, id) ==
    items[CHOOSE k \in 1..Len(items) :
            /\ items[k].field_id = id
            /\ \A j \in (k + 1)..Len(items) : items[j].field_id # id].value

\* {item['field_id']: item['value'] for item in field_values}, as the
\* sequence of its <<key, value>> pairs in key order
ValuesDict(items) ==
    LET keys == DictKeys(items)
    IN [k \in 1..Len(keys) |-> <<keys[k], DictValue(items, keys[k])>>]

\* a plausible slip: every supplied id is reported, valid or not
InvalidFields_all(vd, valid_fields) ==
    [k \in 1..Len(vd) |-> vd[k][1]]
\* invalid_fields: the keys of values_dict that are not in valid_fields
InvalidFields(vd, valid_fields) ==
    LET NotValid(pair) == pair[1] \notin valid_fields
        bad == SelectSeq(vd, NotValid)
    IN [k \in 1..Len(bad) |-> bad[k][1]]

RECURSIVE Sorted(_)
\* sorted(S)
Sorted(S) ==
    IF S = {} THEN <<>>
    ELSE LET least == CHOOSE x \in S : \A y \in S : x <= y
         IN <<least>> \o Sorted(S \ {least})

\* update_page_form_field_values(writer.pages[0], values_dict): the fields
\* lying on the first page take their values; "" marks a field left as it was
UpdatedFields(cat, vd) ==
    [id \in CatalogIds(cat) |->
        IF cat[id] = 1 /\ \E k \in 1..Len(vd) : vd[k][1] = id
        THEN vd[CHOOSE k \in 1..Len(vd) : vd[k][1] = id][2]
        ELSE ""]

NoFields == [id \in {} |-> ""]
FormNotWritten == [written |-> FALSE, fields |-> NoFields]
FormWritten(fs) == [written |-> TRUE, fields |-> fs]

InitFill ==
    /\ ff_values_ok \in BOOLEAN
    /\ ff_input_ok \in BOOLEAN
    /\ field_values \in (IF ff_values_ok THEN SeqsUpTo(Items, MaxValues) ELSE {<<>>})
    /\ \E n \in 1..MaxFormPages :
        /\ ff_pages = (IF ff_input_ok THEN n ELSE 0)
        /\ ff_catalog \in (IF ff_input_ok THEN Catalogs(n) ELSE {[id \in FieldIds |-> 0]})
    /\ values_dict = <<>>
    /\ invalid_fields = <<>>
    /\ ff_listed_invalid = <<>>
    /\ ff_listed_valid = <<>>
    /\ ff_message = "none"
    /\ ff_filled = NoFields
    /\ ff_output = FormNotWritten
    /\ ff_exit = -1
    /\ ff_pc = "load"

IdleFill ==
    /\ ff_values_ok = FALSE
    /\ ff_input_ok = FALSE
    /\ field_values = <<>>
    /\ ff_pages = 0
    /\ ff_catalog = [id \in FieldIds |-> 0]
    /\ values_dict = <<>>
    /\ invalid_fields = <<>>
    /\ ff_listed_invalid = <<>>
    /\ ff_listed_valid = <<>>
    /\ ff_message = "none"
    /\ ff_filled = NoFields
    /\ ff_output = FormNotWritten
    /\ ff_exit = -1
    /\ ff_pc = "idle"

\* field_values = json.load(f); values_dict = {...}
FillLoad ==
    /\ ff_pc = "load"
    /\ IF ff_values_ok
       THEN values_dict' = ValuesDict(field_values) /\ ff_pc' = "open"
       ELSE UNCHANGED values_dict /\ ff_pc' = "raised"
    /\ UNCHANGED <<ff_values_ok, ff_input_ok, field_values, ff_pages, ff_catalog,
                   invalid_fields, ff_listed_invalid, ff_listed_valid, ff_message,
                   ff_filled, ff_output, ff_exit>>
    /\ UNCHANGED rest_ff

\* reader = PdfReader(input_path); the pages are copied to the writer
FillOpen ==
    /\ ff_pc = "open"
    /\ ff_pc' = IF ff_input_ok THEN "fields" ELSE "raised"
    /\ UNCHANGED <<ff_values_ok, ff_input_ok, field_values, ff_pages, ff_catalog,
                   values_dict, invalid_fields, ff_listed_invalid, ff_listed_valid,
                   ff_message, ff_filled, ff_output, ff_exit>>
    /\ UNCHANGED rest_ff

\* fields = reader.get_fields(); no field: the error message and sys.exit(1);
\* else the ids are validated
FillValidate ==
    /\ ff_pc = "fields"
    /\ IF CatalogIds(ff_catalog) = {}
       THEN /\ ff_message' = "no fillable fields"
            /\ ff_exit' = 1
            /\ ff_pc' = "exited"
            /\ UNCHANGED invalid_fields
       ELSE /\ invalid_fields' = InvalidFields(values_dict, CatalogIds(ff_catalog))
            /\ ff_pc' = "validated"
            /\ UNCHANGED <<ff_message, ff_exit>>
    /\ UNCHANGED <<ff_values_ok, ff_input_ok, field_values, ff_pages, ff_catalog,
                   values_dict, ff_listed_invalid, ff_listed_valid, ff_filled,
                   ff_output>>
    /\ UNCHANGED rest_ff

\* `if invalid_fields:` both lists are printed and sys.exit(1)
FillReject ==
    /\ ff_pc = "validated"
    /\ invalid_fields # <<>>
    /\ ff_message' = "invalid field ids"
    /\ ff_listed_invalid' = invalid_fields
    /\ ff_listed_valid' = Sorted(CatalogIds(ff_catalog))
    /\ ff_exit' = 1
    /\ ff_pc' = "exited"
    /\ UNCHANGED <<ff_values_ok, ff_input_ok, field_values, ff_pages, ff_catalog,
                   values_dict, invalid_fields, ff_filled, ff_output>>
    /\ UNCHANGED rest_ff

\* writer.update_page_form_field_values(writer.pages[0], values_dict, ...)
FillUpdate ==
    /\ ff_pc = "validated"
    /\ invalid_fields = <<>>
    /\ ff_filled' = UpdatedFields(ff_catalog, values_dict)
    /\ ff_pc' = "write"
    /\ UNCHANGED <<ff_values_ok, ff_input_ok, field_values, ff_pages, ff_catalog,
                   values_dict, invalid_fields, ff_listed_invalid, ff_listed_valid,
                   ff_message, ff_output, ff_exit>>
    /\ UNCHANGED rest_ff

\* with open(output_path, 'wb') as f: writer.write(f); the success message
FillWrite ==
    /\ ff_pc = "write"
    /\ ff_output' = FormWritten(ff_filled)
    /\ ff_message' = "successfully filled"
    /\ ff_exit' = 0
    /\ ff_pc' = "exited"
    /\ UNCHANGED <<ff_values_ok, ff_input_ok, field_values, ff_pages, ff_catalog,
                   values_dict, invalid_fields, ff_listed_invalid, ff_listed_valid,
                   ff_filled>>
    /\ UNCHANGED rest_ff

\* an uncaught exception: traceback, exit status 1
FillRaised ==
    /\ ff_pc = "raised"
    /\ ff_exit' = 1
    /\ ff_pc' = "exited"
    /\ UNCHANGED <<ff_values_ok, ff_input_ok, field_values, ff_pages, ff_catalog,
                   values_dict, invalid_fields, ff_listed_invalid, ff_listed_valid,
                   ff_message, ff_filled, ff_output>>
    /\ UNCHANGED rest_ff

(***************************************************************************)
(* merge_pdfs.py : merge_pdfs                                              *)
(***************************************************************************)
\* Most input files.
MaxInputs == 3
\* Most pages of an input file.
MaxInputPages == 2

\* an input file: unreadable, or a document of so many pages
Unreadable == [readable |-> FALSE, pages |-> 0]
Readable(n) == [readable |-> TRUE, pages |-> n]
InputFiles == {Unreadable} \cup {Readable(n) : n \in 0..MaxInputPages}

\* the pages of input i, as <<input, page>> pairs
PagesOfInput(i, n) == [k \in 1..n |-> <<i, k>>]

InitMerge ==
    /\ input_paths \in SeqsUpTo(InputFiles, MaxInputs) \ {<<>>}
    /\ mg_i = 0
    /\ mg_writer = <<>>
    /\ mg_total_pages = 0
    /\ mg_errors = <<>>
    /\ mg_output = NotWritten
    /\ mg_exit = -1
    /\ mg_pc = "loop"

IdleMerge ==
    /\ input_paths = <<>>
    /\ mg_i = 0
    /\ mg_writer = <<>>
    /\ mg_total_pages = 0
    /\ mg_errors = <<>>
    /\ mg_output = NotWritten
    /\ mg_exit = -1
    /\ mg_pc = "idle"

\* one turn of `for pdf_path in input_paths`: the try block, or its except
MergeInput ==
    /\ mg_pc = "loop"
    /\ mg_i < Len(input_paths)
    /\ LET file == input_paths[mg_i + 1]
       IN IF file.readable
          THEN /\ mg_writer' = mg_writer \o PagesOfInput(mg_i + 1, file.pages)
               /\ mg_total_pages' = mg_total_pages + file.pages
               /\ UNCHANGED mg_errors
          ELSE /\ mg_errors' = Append(mg_errors, mg_i + 1)
               /\ UNCHANGED <<mg_writer, mg_total_pages>>
    /\ mg_i' = mg_i + 1
    /\ UNCHANGED <<input_paths, mg_output, mg_exit, mg_pc>>
    /\ UNCHANGED rest_mg

\* with open(output_path, 'wb') as f: writer.write(f); the script ends
MergeWrite ==
    /\ mg_pc = "loop"
    /\ mg_i = Len(input_paths)
    /\ mg_output' = Written(mg_writer)
    /\ mg_exit' = 0
    /\ mg_pc' = "done"
    /\ UNCHANGED <<input_paths, mg_i, mg_writer, mg_total_pages, mg_errors>>
    /\ UNCHANGED rest_mg

(***************************************************************************)
(* Specifications: one per utility, the other utilities idle               *)
(***************************************************************************)
InitB == InitBoxes /\ IdleCheck /\ IdleSplit /\ IdleAnnot /\ IdleFill /\ IdleMerge
NextB == BoxesIntersectCall
SpecBoxes == InitB /\ [][NextB]_vars

InitC == IdleBoxes /\ InitCheck /\ IdleSplit /\ IdleAnnot /\ IdleFill /\ IdleMerge
NextC == CheckField \/ CheckReturn \/ CheckExit
SpecCheck == InitC /\ [][NextC]_vars

InitS == IdleBoxes /\ IdleCheck /\ InitSplit /\ IdleAnnot /\ IdleFill /\ IdleMerge
NextS == ExtractOpen \/ ExtractParse \/ ExtractAddPage \/ ExtractWrite \/ ExtractRaised
SpecSplit == InitS /\ [][NextS]_vars

InitA == IdleBoxes /\ IdleCheck /\ IdleSplit /\ InitAnnot /\ IdleFill /\ IdleMerge
NextA == AnLoad \/ AnOpen \/ AnPageStart \/ AnDrawField \/ AnAddPage \/ AnWrite \/ AnRaised
SpecAnnot == InitA /\ [][NextA]_vars

InitF == IdleBoxes /\ IdleCheck /\ IdleSplit /\ IdleAnnot /\ InitFill /\ IdleMerge
NextF == FillLoad \/ FillOpen \/ FillValidate \/ FillReject \/ FillUpdate \/ FillWrite \/ FillRaised
SpecFill == InitF /\ [][NextF]_vars

InitM == IdleBoxes /\ IdleCheck /\ IdleSplit /\ IdleAnnot /\ IdleFill /\ InitMerge
NextM == MergeInput \/ MergeWrite
SpecMerge == InitM /\ [][NextM]_vars

(***************************************************************************)
(* Claims about boxes_intersect (SpecBoxes)                                *)
(***************************************************************************)
\* The closed regions of two rectangles share a point.  The corners are
\* integers, so two closed regions that share a point share a grid point.
SharePoint(q1, q2) ==
    \E x \in Coord, y \in Coord :
        /\ q1[1] <= x /\ x <= q1[3] /\ q1[2] <= y /\ y <= q1[4]
        /\ q2[1] <= x /\ x <= q2[3] /\ q2[2] <= y /\ y <= q2[4]

\* C1: boxes_intersect returns False when either argument is None or empty,
\* and for two present well-formed rectangles it returns True exactly when
\* their closed regions share a point (touching edges and corners included).
C1_ClosedOverlap ==
    bi_pc = "returned" =>
        /\ (~Truthy(box1) \/ ~Truthy(box2)) => bi_result = FALSE
        /\ (Truthy(box1) /\ Truthy(box2)
              /\ WellFormed(box1.items) /\ WellFormed(box2.items))
            => (bi_result <=> SharePoint(box1.items, box2.items))

\* two proper rectangles that meet in one corner only, reported intersecting
C1_Witness ==
    /\ bi_pc = "returned"
    /\ Truthy(box1) /\ Truthy(box2)
    /\ box1.items[1] < box1.items[3] /\ box1.items[2] < box1.items[4]
    /\ box2.items[1] < box2.items[3] /\ box2.items[2] < box2.items[4]
    /\ box1.items[3] = box2.items[1]
    /\ box1.items[4] = box2.items[2]
    /\ bi_result = TRUE

\* C2: boxes_intersect is symmetric in its arguments, for absent arguments
\* and for rectangles that are not well-formed too.
C2_Symmetric ==
    bi_pc = "returned" => bi_result = boxes_intersect(box2, box1)

\* an inverted rectangle against a proper one lying left of it
C2_Witness ==
    /\ bi_pc = "returned"
    /\ Truthy(box1) /\ Truthy(box2)
    /\ ~WellFormed(box1.items)
    /\ WellFormed(box2.items)
    /\ box2.items[3] < box1.items[1]
    /\ bi_result = FALSE

(***************************************************************************)
(* Claims about check_bounding_boxes (SpecCheck)                           *)
(***************************************************************************)
\* the messages the step appended
Appended(before, after) == SubSeq(after, Len(before) + 1, Len(after))

\* C3: an iteration over a field reports "too short" iff the field has an
\* entry box and bottom - top < 15; a height of exactly 15 is no violation
\* and a field without an entry box yields no height violation.
C3_HeightViolation ==
    [][(cb_pc = "loop" /\ cb_i < Len(form_fields)) =>
        LET entry_box == form_fields[cb_i + 1].entry_bounding_box
            new == Appended(errors, errors')
        IN /\ Len(errors') >= Len(errors)
           /\ SubSeq(errors', 1, Len(errors)) = errors
           /\ (\E k \in 1..Len(new) : new[k].kind = "short")
                <=> (Truthy(entry_box)
                       /\ entry_box.items[4] - entry_box.items[2] < 15)
           /\ \A k \in 1..Len(new) :
                new[k].kind = "short" =>
                    new[k].height = entry_box.items[4] - entry_box.items[2]
      ]_vars

\* a field whose entry box is exactly 15 high was checked, nothing reported
C3_Witness ==
    /\ cb_i >= 1
    /\ Truthy(form_fields[1].entry_bounding_box)
    /\ form_fields[1].entry_bounding_box.items[4]
         - form_fields[1].entry_bounding_box.items[2] = 15
    /\ errors = <<>>

\* the violations of the input: <<k, 1>> field k's boxes intersect,
\* <<k, 2>> field k's entry box is too short
Violations ==
    {v \in (1..Len(form_fields)) \X {1, 2} :
        LET field == form_fields[v[1]]
            label_box == field.label_bounding_box
            entry_box == field.entry_bounding_box
        IN IF v[2] = 1
           THEN Truthy(label_box) /\ Truthy(entry_box)
                  /\ boxes_intersect(label_box, entry_box)
           ELSE Truthy(entry_box)
                  /\ entry_box.items[4] - entry_box.items[2] < MIN_HEIGHT}

\* the position of a violation in input field order
Rank(v) ==
    Cardinality({w \in Violations : 2 * w[1] + w[2] <= 2 * v[1] + v[2]})

MsgFor(v) ==
    LET field == form_fields[v[1]]
    IN IF v[2] = 1 THEN IntersectMsg(field, v[1] - 1)
       ELSE ShortMsg(field, v[1] - 1, HeightOf(field.entry_bounding_box))

\* C4: the result is True (exit status 0) iff no message was produced, i.e.
\* iff the input has no violation, else False (exit status 1); there is one
\* message per violation, in input field order, duplicates kept.
C4_ValidIffNoViolation ==
    /\ cb_pc \in {"returned", "exited"} =>
        /\ Len(errors) = Cardinality(Violations)
        /\ \A v \in Violations : errors[Rank(v)] = MsgFor(v)
        /\ valid <=> (errors = <<>>)
        /\ valid <=> (Violations = {})
    /\ cb_pc = "exited" => cb_exit = (IF Violations = {} THEN 0 ELSE 1)

\* two equal fields, each reported with the same message, exit status 1
C4_Witness ==
    /\ cb_pc = "exited"
    /\ Len(form_fields) = 2
    /\ form_fields[1] = form_fields[2]
    /\ Len(errors) = 2
    /\ errors[1] = errors[2]
    /\ valid = FALSE
    /\ cb_exit = 1

(***************************************************************************)
(* Claims about parse_page_range (SpecSplit)                               *)
(***************************************************************************)
\* what a token contributes, as the specification words it
Contribution(t, total) ==
    IF ~t.span
    THEN IF 1 <= t.a /\ t.a <= total THEN <<t.a - 1>> ELSE <<>>
    ELSE LET first == t.a - 1
             last == Min(t.b, total) - 1
         IN IF last < first THEN <<>>
            ELSE [k \in 1..(last - first + 1) |-> first + k - 1]

\* C5: for a range expression written from page tokens, parse_page_range
\* returns the tokens' contributions concatenated in token order, neither
\* sorted nor deduplicated: a page number p gives p-1 when 1 <= p <= total
\* and nothing otherwise, a span start-end gives start-1 .. min(end, total)-1.
C5_TokenContributions ==
    /\ (sp_pc \in {"add", "done"} /\ sp_tokens # NoTokens) =>
        sp_pages.pages =
            Concat([k \in 1..Len(sp_tokens) |-> Contribution(sp_tokens[k], total_pages)])
    /\ (sp_pc = "raised" /\ sp_input_ok /\ sp_tokens # NoTokens) => sp_pages.ok
    /\ (sp_pc = "done" /\ total_pages = 10 /\ range_str = <<"1", "-", "3", ",", "5">>)
        => sp_pages.pages = <<0, 1, 2, 4>>
    /\ (sp_pc = "done" /\ total_pages = 4 /\ range_str = <<"1", ",", "3", ",", "5">>)
        => sp_pages.pages = <<0, 2>>
    /\ (sp_pc = "done" /\ total_pages = 10 /\ range_str = <<"8", "-", "1", "2">>)
        => sp_pages.pages = <<7, 8, 9>>

\* "8-12" of a 10-page document: the span is clamped to pages 8..10
C5_Witness ==
    /\ sp_pc = "done"
    /\ range_str = <<"8", "-", "1", "2">>
    /\ total_pages = 10
    /\ sp_pages.pages = <<7, 8, 9>>
    /\ sp_output = Written(<<7, 8, 9>>)

(***************************************************************************)
(* Claims about fill_form_with_annotations (SpecAnnot)                     *)
(***************************************************************************)
\* the drawable fields of page k, in input order
DrawableFields(k) == SelectSeq(PageFields(an_fields, k), IsDrawable)

\* the drawable fields among the first j fields of page k
DrawableSoFar(k, j) == SelectSeq(SubSeq(PageFields(an_fields, k), 1, j), IsDrawable)

\* the image dimensions the Page Descriptor of page k gives
DescribedWidth(k) == PageInfo(an_pages, k)[1].image_width
DescribedHeight(k) == PageInfo(an_pages, k)[1].image_height
Described(k) ==
    /\ PageInfo(an_pages, k) # <<>>
    /\ DescribedWidth(k) \notin {NoDim, 0}
    /\ DescribedHeight(k) \notin {NoDim, 0}

\* p is the rational n / d
IsRatio(p, n, d) == p[1] * d = n * p[2]

\* the items drawn on page k were anchored as the claim says
AnchoredAsClaimed(items, fs, k) ==
    /\ Len(items) = Len(fs)
    /\ \A i \in 1..Len(items) :
        LET left == fs[i].entry_bounding_box.items[1]
            bottom == fs[i].entry_bounding_box.items[4]
            page_width == PageSize(k)[1]
            page_height == PageSize(k)[2]
        IN /\ IsRatio(items[i].x, left * page_width, DescribedWidth(k))
           /\ IsRatio(items[i].y,
                      page_height * DescribedHeight(k) - bottom * page_height,
                      DescribedHeight(k))
           /\ items[i].text = fs[i].entry_text.text

\* C6: on a page of size page_width x page_height whose Page Descriptor gives
\* image_width x image_height, the text of every field with an entry box and
\* an entry text is anchored at (left * page_width / image_width,
\* page_height - bottom * page_height / image_height); page 612x792, image
\* 1224x1584 and box [100,125,280,142] give (50, 721).
C6_AnchorScaledAndFlipped ==
    /\ \A n \in 1..Len(an_writer) :
        LET k == an_writer[n].page
        IN Described(k) =>
            AnchoredAsClaimed(an_writer[n].overlay, DrawableFields(k), k)
    /\ (an_pc = "field" /\ Described(an_page)) =>
            AnchoredAsClaimed(an_canvas, DrawableSoFar(an_page, an_j), an_page)
    /\ \A n \in 1..Len(an_writer) :
        (/\ an_writer[n].page = 1
         /\ Described(1) /\ DescribedWidth(1) = 1224 /\ DescribedHeight(1) = 1584)
        => \A i \in 1..Len(an_writer[n].overlay) :
              DrawableFields(1)[i].entry_bounding_box = Box1
                => /\ an_writer[n].overlay[i].x = <<50, 1>>
                   /\ an_writer[n].overlay[i].y = <<721, 1>>

\* the example of the specification, written to the output
C6_Witness ==
    /\ an_pc = "done"
    /\ an_output.written
    /\ Len(an_output.pages) = 2
    /\ PageInfo(an_pages, 1) = <<Descriptor(1, 1224, 1584)>>
    /\ PageInfo(an_pages, 2) = <<Descriptor(2, 612, 792)>>
    /\ Len(an_output.pages[1].overlay) = 1
    /\ an_output.pages[1].overlay[1].x = <<50, 1>>
    /\ an_output.pages[1].overlay[1].y = <<721, 1>>
    /\ Len(an_output.pages[2].overlay) = 1
    /\ an_output.pages[2].overlay[1].y = <<386, 1>>

\* page k has no Page Descriptor, or one with a zero image dimension
ZeroOrAbsent(k) ==
    \/ PageInfo(an_pages, k) = <<>>
    \/ DescribedWidth(k) = 0
    \/ DescribedHeight(k) = 0

\* C7: when an image dimension of a page is zero or the page has no Page
\* Descriptor, the page's own dimensions are used (both scale factors 1.0)
\* and the page is processed without error.
C7_ZeroOrAbsentFallsBack ==
    (/\ an_json_ok /\ an_input_ok
     /\ an_page \in 1..an_doc_pages
     /\ ZeroOrAbsent(an_page))
    => /\ an_pc \notin {"raised", "failed"}
       /\ an_pc = "field" => an_scale = <<One, One>>

\* the text s is no hexadecimal number
Unparseable(s) == s = <<>> \/ \E k \in 1..Len(s) : s[k] \notin HexChars

\* the colour the claim gives a drawn field
ClaimedColor(field) ==
    IF ~field.entry_text.has_color THEN Black
    ELSE IF Unparseable(field.entry_text.font_color) THEN Black
    ELSE HexColor(field.entry_text.font_color).rgb

ColoredAsClaimed(items, fs) ==
    /\ Len(items) = Len(fs)
    /\ \A i \in 1..Len(items) : items[i].rgb = ClaimedColor(fs[i])

\* a page with a zero image dimension is reached
ZeroDimPage == \E k \in 1..an_doc_pages : ZeroOrAbsent(k) /\ PageInfo(an_pages, k) # <<>>

\* C10: a field whose font colour does not parse is drawn in black and does
\* not abort the run: every drawable field of every page is drawn, the run
\* fails only for another reason, and the output written holds every page.
C10_BadColorFallsBackToBlack ==
    /\ \A n \in 1..Len(an_writer) :
        ColoredAsClaimed(an_writer[n].overlay, DrawableFields(an_writer[n].page))
    /\ an_pc = "field" =>
        ColoredAsClaimed(an_canvas, DrawableSoFar(an_page, an_j))
    /\ an_pc \in {"raised", "failed"} =>
        (~an_json_ok \/ ~an_input_ok \/ ZeroDimPage)
    /\ an_pc = "done" =>
        /\ an_output = Written(an_writer)
        /\ Len(an_writer) = an_doc_pages
        /\ \A n \in 1..an_doc_pages : an_writer[n].page = n

\* page 1 holds an unparseable colour drawn black and a red text after it,
\* page 2 a red text, and the output is written
C10_Witness ==
    /\ an_pc = "done"
    /\ an_output.written
    /\ Len(an_output.pages) = 2
    /\ an_fields = <<AnField(0, Box1, Text(NotHex)), AnField(2, Box1, Text(Red))>>
    /\ Len(an_output.pages[1].overlay) = 1
    /\ an_output.pages[1].overlay[1].rgb = Black
    /\ Len(an_output.pages[2].overlay) = 1
    /\ an_output.pages[2].overlay[1].rgb = <<255, 0, 0>>

(***************************************************************************)
(* Claims about fill_form_fields (SpecFill)                                *)
(***************************************************************************)
SeqSet(s) == {s[k] : k \in 1..Len(s)}
\* the ids the field-value document supplies
Supplied == {field_values[k].field_id : k \in 1..Len(field_values)}
\* the supplied ids the catalog lacks
NotInCatalog == Supplied \ CatalogIds(ff_catalog)
\* both documents could be read
FillInputsRead == ff_values_ok /\ ff_input_ok

\* C8 as stated: a supplied id missing from the catalog makes the run fail
\* with exactly the missing ids and all valid ids listed, a non-zero status
\* and no output; when no supplied id is missing there is no invalid-id failure.
C8_InvalidIdsListed ==
    /\ (FillInputsRead /\ NotInCatalog # {}) =>
        /\ ff_output = FormNotWritten
        /\ ff_pc = "exited" =>
            /\ ff_exit # 0
            /\ SeqSet(ff_listed_invalid) = NotInCatalog
            /\ SeqSet(ff_listed_valid) = CatalogIds(ff_catalog)
    /\ (FillInputsRead /\ NotInCatalog = {}) => ff_message # "invalid field ids"

\* C8 amended: a supplied id missing from the catalog makes the run fail with
\* a non-zero status and no output; the missing ids and all valid ids are
\* listed when the catalog is not empty, and a document without any fillable
\* field fails with the "no fillable fields" message, listing no id.
C8_InvalidIdsListedUnlessNoFields ==
    /\ (FillInputsRead /\ NotInCatalog # {}) =>
        /\ ff_output = FormNotWritten
        /\ ff_pc = "exited" =>
            /\ ff_exit # 0
            /\ IF CatalogIds(ff_catalog) # {}
               THEN /\ ff_message = "invalid field ids"
                    /\ SeqSet(ff_listed_invalid) = NotInCatalog
                    /\ Len(ff_listed_invalid) = Cardinality(NotInCatalog)
                    /\ SeqSet(ff_listed_valid) = CatalogIds(ff_catalog)
                    /\ Len(ff_listed_valid) = Cardinality(CatalogIds(ff_catalog))
               ELSE /\ ff_message = "no fillable fields"
                    /\ ff_listed_invalid = <<>>
                    /\ ff_listed_valid = <<>>
    /\ (FillInputsRead /\ NotInCatalog = {}) => ff_message # "invalid field ids"

\* one supplied id is in the catalog and one is not: only the latter is listed
C8_Witness ==
    /\ ff_pc = "exited"
    /\ ff_exit = 1
    /\ Cardinality(Supplied) = 2
    /\ Cardinality(NotInCatalog) = 1
    /\ SeqSet(ff_listed_invalid) = NotInCatalog
    /\ Cardinality(CatalogIds(ff_catalog)) = 2
    /\ ff_listed_valid = Sorted(CatalogIds(ff_catalog))
    /\ ff_output = FormNotWritten

(***************************************************************************)
(* Claims about input failures (SpecMerge)                                 *)
(***************************************************************************)
\* C9: in merge_pdfs, extract_pages, fill_form_fields and
\* fill_form_with_annotations an input that cannot be opened or read is
\* fatal: the run does not end with success status and writes no output.
C9_InputFailureIsFatal ==
    /\ (\E k \in 1..Len(input_paths) : ~input_paths[k].readable) =>
        /\ mg_output = NotWritten
        /\ mg_exit # 0
    /\ (sp_pc # "idle" /\ ~sp_input_ok) =>
        /\ sp_output = NotWritten
        /\ sp_exit # 0
    /\ (ff_pc # "idle" /\ ~FillInputsRead) =>
        /\ ff_output = FormNotWritten
        /\ ff_exit # 0
    /\ (an_pc # "idle" /\ ~(an_json_ok /\ an_input_ok)) =>
        /\ an_output = NotWritten
        /\ an_exit # 0

(***************************************************************************)
(* Claims about the indices extract_pages uses (SpecSplit)                 *)
(***************************************************************************)
\* C11: every index parse_page_range returns for an expression it accepts
\* satisfies 0 <= index < total_pages, so extract_pages adds exactly the
\* pages at the parsed indices and never indexes reader.pages with a
\* negative or out-of-range number.
C11_IndicesInRange ==
    /\ sp_pages.ok =>
        \A k \in 1..Len(sp_pages.pages) :
            0 <= sp_pages.pages[k] /\ sp_pages.pages[k] < total_pages
    /\ \A k \in 1..Len(sp_writer) : sp_writer[k] = sp_pages.pages[k]

(***************************************************************************)
(* Claims about the values fill_form_fields writes (SpecFill)              *)
(***************************************************************************)
\* C12: when fill_form_fields reports success, every field named in the
\* field-value document carries its supplied value in the written output,
\* whichever page the field lies on.
C12_EverySuppliedFieldFilled ==
    ff_message = "successfully filled" =>
        /\ ff_output.written
        /\ \A id \in Supplied :
            /\ id \in DOMAIN ff_output.fields
            /\ ff_output.fields[id] = DictValue(field_values, id)

====
